---- MODULE Spec2Model ----
(***************************************************************************)
(* Delivery governance of the Repara-Ja API: rate limiting, idempotency,   *)
(* outbound WhatsApp sends, message status updates and the inbound         *)
(* webhook.  Each subsystem has its own next-state relation and            *)
(* specification over the shared state.                                    *)
(***************************************************************************)
EXTENDS Integers, Sequences, FiniteSets, TLC

(***************************************************************************)
(* Bounds of the model.                                                    *)
(***************************************************************************)
MaxLimit == 2
MaxRequests == 4
MaxTicks == 4
MaxIdemReqs == 3
MaxHalfDays == 3
MaxSendReqs == 2
MaxRows == 3
MaxJobs == 1
MaxHookRuns == 2
MaxQuotaReqs == 4
MaxMonths == 1
MaxSubs == 3
MaxHandshakes == 2
MaxLogins == 7
MaxLockTicks == 2
MaxOrders == 2
MaxOrderOps == 3
MaxPipeReqs == 3

Tenants == {"t1", "t2"}
Phones == {"p1", "p2"}
Callers == {"c1", "c2"}
WindowsMs == {1000, 1500, 2000}
HalfSecondMs == 1000 \div 2

None == "none"
Uuids == {"u1"}
IdemHeaders == {None, "not-a-uuid"} \cup Uuids
IdemReqs == 1..MaxIdemReqs
HalfDayMs == 12 * 3600 * 1000
IdemTtlSeconds == 86400
SendReqs == 1..MaxSendReqs
QueueAttempts == 5
QueueBackoffMs == 2000
InboundIds == {100}
Secrets == {"s1", "s2"}
StatusValues == {"sent", "delivered", "read", "failed", "received", "deleted"}

VARIABLES
    now,        \* Date.now() in ms
    rlCfg,      \* createRateLimiter(windowMs, maxRequests, keyGenerator)
    rlHits,     \* express-rate-limit MemoryStore: key -> hits in the window
    rlReset,    \* express-rate-limit MemoryStore: key -> reset time of the window
    rlLog,      \* responses of the limiter in the current window of each key
    rlCount,    \* requests counted by the limiter so far
    rlLast,     \* the last request counted by the limiter and its answer
    rdCtr,      \* redis: key -> counter written by checkRateLimit (0 = no key)
    rdExp,      \* redis: key -> expiry time of the counter
    crl,        \* checkRateLimit calls in flight
    idem,       \* redis: idempotency:<tenant>:<key> -> cached response, expiry
    ireq,       \* requests through checkIdempotency and the route handler
    execs,      \* number of executions of the business logic so far
    firstDone,  \* per key: the first completed response of the running 24h
    exited,     \* process.exit(1) was called by the unhandledRejection handler
    sreq,       \* POST /whatsapp/text requests in MessageController.sendText
    msgs,       \* rows of the messages table, in insertion order
    sendQueue,  \* jobs of the BullMQ queue wa:send
    lastEvent,  \* the last event handed to triggerPartnerWebhooks
    whLast,     \* the last POST /webhooks/whatsapp and its answer
    whRuns,     \* number of processWebhook invocations
    whTasks,    \* the processWebhook promises started by the route, in order
    msgLog,     \* the last error logged by processInboundMessage
    vehicles,   \* the vehicles table: tenant -> number of rows
    qLast,      \* the last request through checkPlanLimits and its outcome
    qFlight,    \* requests let through by checkPlanLimits, controller not run yet
    qCount,     \* requests that went through checkPlanLimits so far
    month,      \* the calendar month of the clock, counted from start-up
    webhooks,   \* rows of the webhooks table, in insertion order
    regLast,    \* the answer to the last POST /webhooks/partners
    lastDispatch, \* the last run of triggerPartnerWebhooks and its deliveries
    verifyToken, \* process.env.WHATSAPP_WEBHOOK_VERIFY_TOKEN, when set
    vfLog,      \* the GET /webhooks/whatsapp requests and their answers
    user,       \* the row of one user in the users table
    auth,       \* User.authenticate calls in flight, one per concurrent caller
    authCount,  \* User.authenticate calls started so far
    wrongTried, \* wrong passwords verified since the last reset of the attempts
    lockEnd,    \* end of the 30 minutes of the last lock written
    lockBreach, \* an authentication succeeded before lockEnd
    orders,     \* the orders table: id -> row, when there is one
    ordLast,    \* the last request to the orders router and its answer
    ordCount,   \* requests to the orders router so far
    pipe        \* POST /v1/messages/whatsapp/text requests in the route's chain

rateVars == <<rlCfg, rlHits, rlReset, rlLog, rlCount, rlLast>>
crlVars == <<rdCtr, rdExp, crl>>
idemVars == <<idem, ireq, execs, firstDone, exited>>
sendVars == <<sreq, msgs, sendQueue, lastEvent, msgLog>>
hookVars == <<whLast, whRuns, whTasks>>
quotaVars == <<vehicles, qLast, qFlight, qCount, month>>
partnerVars == <<webhooks, regLast, lastDispatch>>
verifyVars == <<verifyToken, vfLog>>
loginVars == <<user, auth, authCount, wrongTried, lockEnd, lockBreach>>
orderVars == <<orders, ordLast, ordCount>>
pipeVars == <<pipe>>
extVars == <<verifyVars, loginVars, orderVars, pipeVars>>
baseVars == <<now, rateVars, crlVars, idemVars, sendVars, hookVars, quotaVars,
              partnerVars>>
vars == <<now, rlCfg, rlHits, rlReset, rlLog, rlCount, rlLast, rdCtr, rdExp, crl,
          idem, ireq, execs, firstDone, exited, sreq, msgs, sendQueue, lastEvent,
          msgLog, whLast, whRuns, whTasks, vehicles, qLast, qFlight,
          qCount, month, webhooks, regLast, lastDispatch, verifyToken,
          vfLog, user, auth, authCount, wrongTried, lockEnd, lockBreach,
          orders, ordLast, ordCount, pipe>>

CeilDiv(a, b) == (a + b - 1) \div b

(***************************************************************************)
(* Rate limiter middleware (createRateLimiter).                            *)
(***************************************************************************)
RlKeys == Tenants \X Phones

\* keyGenerator of whatsappRateLimiter: whatsapp_rate:<tenant>:<phone>
whatsappKeyTenantOnly(tenantId, phoneNumber) == <<tenantId, "p1">>

whatsappKey(tenantId, phoneNumber) == <<tenantId, phoneNumber>>

\* skip: requests under /webhooks are not rate limited
skip(path) == path = "/webhooks"

handlerRetryAfterMs(windowMs, maxRequests) ==
    [status |-> 429, code |-> "rate_limit_exceeded", limit |-> maxRequests,
     remaining |-> 0, retryAfter |-> windowMs]

\* handler: the 429 response of an exceeded key
handler(windowMs, maxRequests) ==
    [status |-> 429, code |-> "rate_limit_exceeded", limit |-> maxRequests,
     remaining |-> 0, retryAfter |-> CeilDiv(windowMs, 1000)]

\* the response recorded for a request the limiter lets through
passed(maxRequests, totalHits) ==
    [status |-> 200, code |-> "next", limit |-> maxRequests,
     remaining |-> maxRequests - totalHits, retryAfter |-> 0]

\* one request through the middleware built by createRateLimiter: the
\* MemoryStore counts the hit of the key, a count above max gets the handler
\* the hits of the key once this request is counted
totalHitsOf(key) == IF rlReset[key] <= now THEN 1 ELSE rlHits[key] + 1

\* the limiter counts the request and answers it
countHit(tenantId, phoneNumber) ==
    LET key == whatsappKey(tenantId, phoneNumber)
        fresh == rlReset[key] <= now
        totalHits == totalHitsOf(key)
        log == IF fresh THEN <<>> ELSE rlLog[key]
    IN  /\ rlCount < MaxRequests
        /\ rlCount' = rlCount + 1
        /\ rlHits' = [rlHits EXCEPT ![key] = totalHits]
        /\ rlReset' = [rlReset EXCEPT ![key] =
                          IF fresh THEN now + rlCfg.windowMs ELSE @]
        /\ rlLog' = [rlLog EXCEPT ![key] =
                        Append(log, IF totalHits > rlCfg.max
                                    THEN handler(rlCfg.windowMs, rlCfg.max)
                                    ELSE passed(rlCfg.max, totalHits))]
        /\ rlLast' = <<[tenant |-> tenantId, phone |-> phoneNumber,
                        status |-> IF totalHits > rlCfg.max THEN 429
                                   ELSE 200]>>

RateLimitMw(tenantId, phoneNumber, path) ==
    IF skip(path)
    THEN UNCHANGED vars
    ELSE /\ countHit(tenantId, phoneNumber)
             /\ UNCHANGED <<now, rlCfg, crlVars, idemVars, sendVars, hookVars, quotaVars, partnerVars, extVars>>

\* the clock
Tick ==
    /\ now < MaxTicks * HalfSecondMs
    /\ now' = now + HalfSecondMs
    /\ UNCHANGED <<rateVars, crlVars, idemVars, sendVars, hookVars, quotaVars, partnerVars, extVars>>

(***************************************************************************)
(* checkRateLimit(key, limit, windowMs): redis GET, then MULTI INCR/EXPIRE. *)
(***************************************************************************)
idleCall == [pc |-> "idle", key |-> None, count |-> 0, allowed |-> FALSE,
             remaining |-> 0, resetTime |-> 0, error |-> FALSE]

\* redis.get(key): an expired key reads as absent
redisGet(key) == IF rdExp[key] > now THEN rdCtr[key] ELSE 0

\* the catch branch: "Em caso de erro, permite a requisicao"
crlOnError(c, windowMs) ==
    crl' = [crl EXCEPT ![c] = [@ EXCEPT !.pc = "done", !.allowed = TRUE,
                                        !.remaining = 999,
                                        !.resetTime = now + windowMs,
                                        !.error = TRUE]]

\* lines 103-112: read the counter and reject at count >= limit
CrlGet(c, key, redisUp) ==
    LET count == redisGet(key)
        limit == rlCfg.max
        windowMs == rlCfg.windowMs
    IN  /\ crl[c].pc = "idle"
        /\ IF ~redisUp
           THEN crlOnError(c, windowMs)
           ELSE IF count >= limit
                THEN crl' = [crl EXCEPT ![c] =
                                [pc |-> "done", key |-> key, count |-> count,
                                 allowed |-> FALSE, remaining |-> 0,
                                 resetTime |-> now + windowMs,
                                 error |-> FALSE]]
                ELSE crl' = [crl EXCEPT ![c] =
                                [@ EXCEPT !.pc = "incr", !.key = key,
                                          !.count = count]]
        /\ UNCHANGED <<now, rateVars, rdCtr, rdExp, idemVars, sendVars, hookVars, quotaVars, partnerVars, extVars>>

\* lines 115-124: MULTI INCR + EXPIRE, then allow
CrlIncr(c, redisUp) ==
    LET key == crl[c].key
        limit == rlCfg.max
        windowMs == rlCfg.windowMs
    IN  /\ crl[c].pc = "incr"
        /\ IF ~redisUp
           THEN /\ crlOnError(c, windowMs)
                /\ UNCHANGED <<rdCtr, rdExp>>
           ELSE /\ rdCtr' = [rdCtr EXCEPT ![key] = redisGet(key) + 1]
                /\ rdExp' = [rdExp EXCEPT ![key] =
                                now + CeilDiv(windowMs, 1000) * 1000]
                /\ crl' = [crl EXCEPT ![c] =
                              [@ EXCEPT !.pc = "done", !.allowed = TRUE,
                                        !.remaining = limit - crl[c].count - 1,
                                        !.resetTime = now + windowMs]]
        /\ UNCHANGED <<now, rateVars, idemVars, sendVars, hookVars, quotaVars, partnerVars, extVars>>

\* the caller takes the result; the call slot is free again
CrlReturn(c) ==
    /\ crl[c].pc = "done"
    /\ crl' = [crl EXCEPT ![c] = idleCall]
    /\ UNCHANGED <<now, rateVars, rdCtr, rdExp, idemVars, sendVars, hookVars, quotaVars, partnerVars, extVars>>


(***************************************************************************)
(* checkIdempotency and the response of the route handler behind it.       *)
(***************************************************************************)
\* idempotency:<tenantId>:<idempotencyKey>
IdemKeys == Tenants \X (IdemHeaders \ {None})

\* reads and writes: the redis commands issued for the request; ran: the
\* route handler behind the middleware has run for it
newReq == [pc |-> "new", tenant |-> None, header |-> None, intercept |-> FALSE,
           replay |-> FALSE, resp |-> <<>>, first |-> <<>>, began |-> 0,
           redisUp |-> TRUE, reads |-> 0, writes |-> 0, ran |-> FALSE,
           writeUp |-> TRUE]

isUuidAnyText(header) == header # None

\* uuidRegex.test(idempotencyKey)
isUuid(header) == header \in Uuids

\* JSON.stringify / JSON.parse of the cached {status, data}
JsonStringify(value) == <<"json", value>>
JsonParse(text) == text[2]

\* redis.get(key) of the idempotency record: an expired record reads as absent
idemGet(key) == IF idem[key] # <<>> /\ idem[key][1].exp > now
                THEN <<idem[key][1].text>> ELSE <<>>

\* res.status(s).json(data): what the client receives
Response(status, data) == [status |-> status, body |-> JsonStringify(data)]

\* the 400 of lines 145-152
invalidRequest == [message_id |-> 0, status |-> "invalid_request"]

\* lines 136-183: the middleware up to next() or the early response
IdemBegin(r, tenantId, header, redisUp) ==
    LET key == <<tenantId, header>>
        base == [newReq EXCEPT !.tenant = tenantId, !.header = header,
                               !.began = now, !.redisUp = redisUp,
                               !.reads = IF header # None /\ isUuid(header)
                                         THEN 1 ELSE 0]
    IN  /\ ireq[r].pc = "new"
        /\ ~exited
        \* requests are numbered in arrival order; redis is consulted only
        \* for a well-formed key
        /\ \A q \in IdemReqs : q < r => ireq[q].pc # "new"
        /\ ~isUuid(header) => redisUp
        /\ ireq' = [ireq EXCEPT ![r] =
              IF header = None
              THEN [base EXCEPT !.pc = "exec"]
              ELSE IF ~isUuid(header)
              THEN [base EXCEPT !.pc = "done",
                                !.resp = <<Response(400, invalidRequest)>>]
              ELSE IF ~redisUp
              THEN [base EXCEPT !.pc = "exec", !.first = firstDone[key]]
              ELSE IF idemGet(key) # <<>>
              THEN [base EXCEPT !.pc = "done", !.replay = TRUE,
                                !.first = firstDone[key],
                                !.resp = <<Response(
                                    JsonParse(idemGet(key)[1]).status,
                                    JsonParse(idemGet(key)[1]).data)>>]
              ELSE [base EXCEPT !.pc = "exec", !.intercept = TRUE,
                                !.first = firstDone[key]]]
        /\ UNCHANGED <<now, rateVars, crlVars, idem, execs, firstDone, exited,
                       sendVars, hookVars, quotaVars, partnerVars, extVars>>

\* the route handler answers through res.json; the override of lines 169-177
\* calls redis.setex for {status, data} with 24 hours to live and sends the
\* response without waiting for it; nothing handles a rejection of the write,
\* so it reaches process.on('unhandledRejection'), which exits the process
IdemRespond(r, status, redisUp) ==
    LET key == <<ireq[r].tenant, ireq[r].header>>
        data == IF status = 202
                THEN [message_id |-> execs + 1, status |-> "sent"]
                ELSE [message_id |-> 0, status |-> "internal_error"]
        resp == Response(status, data)
    IN  /\ ireq[r].pc = "exec"
        /\ ~exited
        \* redis is written only through the override
        /\ ~ireq[r].intercept => redisUp
        /\ execs' = execs + 1
        /\ ireq' = [ireq EXCEPT ![r] =
              [@ EXCEPT !.pc = "done", !.resp = <<resp>>, !.ran = TRUE,
                        !.writes = IF ireq[r].intercept THEN 1 ELSE 0,
                        !.writeUp = redisUp]]
        /\ IF ireq[r].intercept /\ redisUp
           THEN /\ idem' = [idem EXCEPT ![key] =
                              <<[text |-> JsonStringify([status |-> status,
                                                         data |-> data]),
                                 exp |-> now + IdemTtlSeconds * 1000]>>]
                /\ firstDone' =
                      IF \/ firstDone[key] = <<>>
                         \/ firstDone[key][1].at + IdemTtlSeconds * 1000 <= now
                      THEN [firstDone EXCEPT ![key] = <<[resp |-> resp, at |-> now]>>]
                      ELSE firstDone
                /\ UNCHANGED exited
           ELSE /\ exited' = ireq[r].intercept
                /\ UNCHANGED <<idem, firstDone>>
        /\ UNCHANGED <<now, rateVars, crlVars, sendVars, hookVars, quotaVars, partnerVars, extVars>>

\* the clock of the idempotency records, in half days
IdemTick ==
    /\ now < MaxHalfDays * HalfDayMs
    /\ ~exited
    /\ now' = now + HalfDayMs
    /\ UNCHANGED <<rateVars, crlVars, idemVars, sendVars, hookVars, quotaVars, partnerVars, extVars>>


(***************************************************************************)
(* Outbound text message: MessageController.sendText awaiting              *)
(* WhatsAppService.sendText, and the queue wa:send.                        *)
(***************************************************************************)
newSend == [pc |-> "new", tenant |-> None, fails |-> 0,
            calls |-> <<>>, resp |-> <<>>]

\* the CHECK constraint of messages.state
stateCheck(state) == state \in {"sent", "delivered", "read", "failed", "received"}

\* saveMessage: INSERT INTO messages ... RETURNING id
saveMessage(messageData) == Append(msgs, messageData)

\* the id the provider gives to the next accepted message
nextProviderId == Cardinality({r \in SendReqs : sreq[r].pc = "done"
                                              /\ sreq[r].resp[1].status = 202}) + 1

\* lines 8-47: validation, then the awaited call of WhatsAppService.sendText,
\* whose makeRequest posts the message to the provider
CtlSendText(r, tenantId, valid, fails) ==
    /\ sreq[r].pc = "new"
    \* requests are numbered in arrival order
    /\ \A q \in SendReqs : q < r => sreq[q].pc # "new"
    /\ sreq' = [sreq EXCEPT ![r] =
          IF ~valid
          THEN [@ EXCEPT !.pc = "done", !.tenant = tenantId,
                         !.resp = <<[status |-> 400, code |-> "invalid_request"]>>]
          ELSE [@ EXCEPT !.pc = "calling", !.tenant = tenantId,
                         !.fails = fails, !.calls = <<now>>]]
    /\ UNCHANGED <<now, rateVars, crlVars, idemVars, msgs, sendQueue, lastEvent, msgLog, hookVars, quotaVars, partnerVars, extVars>>

\* the provider answers the call of makeRequest: on an error sendText rethrows
\* and the controller answers 500; on success the row is saved as sent and the
\* controller answers 202; an error of the INSERT is rethrown as well
ProviderReply(r, dbUp) ==
    /\ sreq[r].pc = "calling"
    /\ IF sreq[r].fails > 0 \/ ~dbUp
       THEN /\ sreq' = [sreq EXCEPT ![r] =
                  [@ EXCEPT !.pc = "done",
                            !.resp = <<[status |-> 500, code |-> "internal_error"]>>]]
            /\ UNCHANGED msgs
       ELSE /\ Len(msgs) < MaxRows
            /\ msgs' = saveMessage([tenant_id |-> sreq[r].tenant,
                                    direction |-> "outbound", state |-> "sent",
                                    provider_id |-> nextProviderId,
                                    error |-> None, req |-> r,
                                    created_at |-> month])
            /\ sreq' = [sreq EXCEPT ![r] =
                  [@ EXCEPT !.pc = "done",
                            !.resp = <<[status |-> 202, code |-> "sent"]>>]]
    /\ UNCHANGED <<now, rateVars, crlVars, idemVars, sendQueue, lastEvent, msgLog, hookVars, quotaVars, partnerVars, extVars>>

\* queueMessage: sendQueue.add('send_message', data, {attempts: 5, backoff:
\* {type: 'exponential', delay: 2000}}); nothing consumes the queue
QueueMessage(tenantId) ==
    /\ Len(sendQueue) < MaxJobs
    /\ sendQueue' = Append(sendQueue,
                           [name |-> "send_message", tenant |-> tenantId,
                            attempts |-> QueueAttempts,
                            backoff |-> [type |-> "exponential",
                                         delay |-> QueueBackoffMs]])
    /\ UNCHANGED <<now, rateVars, crlVars, idemVars, sreq, msgs, lastEvent, msgLog, hookVars, quotaVars, partnerVars, extVars>>

(***************************************************************************)
(* Status and inbound-message processing of the webhook payload.           *)
(***************************************************************************)
\* updateMessageStatus: UPDATE messages SET state = $1 WHERE provider_id = $2;
\* the CHECK constraint fails the statement when a matched row would get a
\* state outside it
updateRaises(providerId, status) ==
    /\ ~stateCheck(status)
    /\ \E i \in 1..Len(msgs) : msgs[i].provider_id = providerId

updateMessageStatusUpsert(providerId, status) ==
    Append([i \in 1..Len(msgs) |->
               IF msgs[i].provider_id = providerId
               THEN [msgs[i] EXCEPT !.state = status]
               ELSE msgs[i]],
           [tenant_id |-> None, direction |-> "outbound", state |-> status,
            provider_id |-> providerId, error |-> None, req |-> 0,
            created_at |-> month])

updateMessageStatus(providerId, status) ==
    [i \in 1..Len(msgs) |->
        IF msgs[i].provider_id = providerId
        THEN [msgs[i] EXCEPT !.state = status]
        ELSE msgs[i]]

\* processStatusUpdate: update, then trigger message.<status>; an error of the
\* update (constraint or database) is logged and skips the trigger
ProcessStatusUpdate(providerId, status, dbUp) ==
    /\ IF updateRaises(providerId, status) \/ ~dbUp
       THEN UNCHANGED <<msgs, lastEvent>>
       ELSE /\ msgs' = updateMessageStatus(providerId, status)
            /\ lastEvent' = <<"message", status, providerId>>
    /\ UNCHANGED <<now, rateVars, crlVars, idemVars, sreq, sendQueue, msgLog, hookVars, quotaVars, partnerVars, extVars>>

\* messages.tenant_id is NOT NULL: the INSERT of a row without a tenant raises
saveRaises(messageData, dbUp) == messageData.tenant_id = None \/ ~dbUp

\* the messageData of processInboundMessage: it carries no tenant_id
inboundData(messageId) ==
    [tenant_id |-> None, direction |-> "inbound", state |-> "received",
     provider_id |-> messageId, error |-> None, req |-> 0, created_at |-> month]

\* processInboundMessage: insert the inbound row as received, then trigger
\* message.received; an error of the insert is logged and skips the trigger
ProcessInboundMessage(messageId, dbUp) ==
    /\ IF saveRaises(inboundData(messageId), dbUp)
       THEN /\ msgLog' = <<"Erro ao processar mensagem recebida", messageId>>
            /\ UNCHANGED <<msgs, lastEvent>>
       ELSE /\ Len(msgs) < MaxRows
            /\ msgs' = saveMessage(inboundData(messageId))
            /\ lastEvent' = <<"message", "received", messageId>>
            /\ UNCHANGED msgLog
    /\ UNCHANGED <<now, rateVars, crlVars, idemVars, sreq, sendQueue, hookVars, quotaVars, partnerVars, extVars>>


(***************************************************************************)
(* POST /webhooks/whatsapp: signature check over JSON.stringify(req.body). *)
(***************************************************************************)
\* request bodies as sent on the wire, byte by byte (all of them valid JSON)
BodyTexts ==
    {<<"[", "1", "e", "+", "2", "1", "]">>,
     <<"[", "1", "E", "+", "2", "1", "]">>,
     <<"[", " ", "1", "e", "+", "2", "1", "]">>,
     <<"[", "7", "]">>,
     <<"[", "8", "]">>,
     <<"[", "7", " ", "]">>}

\* process.env.WEBHOOK_SECRET
WEBHOOK_SECRET == "s1"

notSpace(ch) == ch # " "
printed(ch) == IF ch = "E" THEN "e" ELSE ch

\* express.json() parses the body and the route serialises it again:
\* JSON.stringify(JSON.parse(text)) drops the whitespace between tokens and
\* prints the exponent of a number in lower case
reserialized(text) ==
    LET kept == SelectSeq(text, notSpace)
    IN  [i \in 1..Len(kept) |-> printed(kept[i])]

\* generateHmac: hex digest of HMAC-SHA256(secret, data), 64 characters
generateHmac(data, secret) == [alg |-> "hmac-sha256", key |-> secret, data |-> data]
HexDigestLen == 64

\* a signature header: prefix, digest and the byte length of the header value
SigHeader(prefix, digest) ==
    [prefix |-> prefix, digest |-> digest,
     len |-> (IF prefix = "sha256=" THEN 7 ELSE 0) + HexDigestLen]

SigHeaders ==
    {<<>>} \cup
    {<<SigHeader(px, generateHmac(b, k))>> :
        px \in {"sha256=", ""}, b \in BodyTexts, k \in Secrets}

\* verifyHmac: Buffer.from(undefined) and timingSafeEqual on buffers of
\* different lengths throw; otherwise the comparison of the two buffers
verifyHmac(data, signature, secret) ==
    LET expectedSignature == SigHeader("sha256=", generateHmac(data, secret))
    IN  IF signature = <<>> THEN "throws"
        ELSE IF signature[1].len # expectedSignature.len THEN "throws"
        ELSE IF signature[1] = expectedSignature THEN "true"
        ELSE "false"

\* what express.json() hands to processWebhook, by its structure: another
\* object (or an array), the account object without an iterable entry (or
\* with an entry without iterable changes), one inbound message, one status
Payloads ==
    {[kind |-> k, id |-> 0, status |-> None] : k \in {"other", "noEntry"}}
    \cup {[kind |-> "message", id |-> i, status |-> None] : i \in InboundIds}
    \cup {[kind |-> "status", id |-> i, status |-> "read"] : i \in InboundIds}

\* how the promise of processWebhook settles: iterating a missing entry or
\* changes raises a TypeError, which is logged and rethrown; the errors of
\* processInboundMessage and processStatusUpdate are caught inside them
processWebhookOutcome(payload) ==
    IF payload.kind = "noEntry" THEN "rejected" ELSE "resolved"

ackStatusAwaited(outcome) == IF outcome = "rejected" THEN 500 ELSE 200

\* lines 45-50: processWebhook is started, its rejection goes to .catch, and
\* 200 is sent without waiting for it
ackStatus(outcome) == 200

\* the route: 401 on a false verification, 500 from the catch, otherwise
\* processWebhook is started and 200 is sent
WebhookPost(text, signature, payload) ==
    LET rawBody == reserialized(text)
        verdict == verifyHmac(rawBody, signature, WEBHOOK_SECRET)
        status == IF verdict = "throws" THEN 500
                  ELSE IF verdict = "false" THEN 401
                  ELSE ackStatus(processWebhookOutcome(payload))
    IN  /\ whRuns < MaxHookRuns
        /\ whLast' = <<[body |-> text, sig |-> signature, status |-> status,
                        processed |-> verdict = "true"]>>
        /\ whRuns' = IF verdict = "true" THEN whRuns + 1 ELSE whRuns
        /\ whTasks' = IF verdict = "true"
                      THEN Append(whTasks, [payload |-> payload, pc |-> "running",
                                            status |-> status, logged |-> {}])
                      ELSE whTasks
        /\ UNCHANGED <<now, rateVars, crlVars, idemVars, sendVars, quotaVars, partnerVars, extVars>>

\* processWebhook runs to the end behind the response: a message goes through
\* processInboundMessage, a status through processStatusUpdate; a rejection is
\* logged by processWebhook and by the .catch of the route
ProcessWebhook(i, dbUp) ==
    LET payload == whTasks[i].payload
        outcome == processWebhookOutcome(payload)
        inner == IF payload.kind = "message"
                 THEN saveRaises(inboundData(payload.id), dbUp)
                 ELSE IF payload.kind = "status"
                 THEN updateRaises(payload.id, payload.status) \/ ~dbUp
                 ELSE FALSE
    IN  /\ whTasks[i].pc = "running"
        /\ whTasks' = [whTasks EXCEPT ![i] =
              [@ EXCEPT !.pc = outcome,
                        !.logged = IF outcome = "rejected"
                                   THEN {"processWebhook", "route"}
                                   ELSE IF inner THEN {payload.kind} ELSE {}]]
        /\ IF payload.kind = "message" /\ inner
           THEN /\ msgLog' = <<"Erro ao processar mensagem recebida", payload.id>>
                /\ UNCHANGED <<msgs, lastEvent>>
           ELSE IF payload.kind = "message"
           THEN /\ Len(msgs) < MaxRows
                /\ msgs' = saveMessage(inboundData(payload.id))
                /\ lastEvent' = <<"message", "received", payload.id>>
                /\ UNCHANGED msgLog
           ELSE IF payload.kind = "status" /\ ~inner
           THEN /\ msgs' = updateMessageStatus(payload.id, payload.status)
                /\ lastEvent' = <<"message", payload.status, payload.id>>
                /\ UNCHANGED msgLog
           ELSE UNCHANGED <<msgs, lastEvent, msgLog>>
        /\ UNCHANGED <<now, rateVars, crlVars, idemVars, sreq, sendQueue,
                       whLast, whRuns, quotaVars, partnerVars, extVars>>

(***************************************************************************)
(* checkPlanLimits and the controllers behind it.                          *)
(***************************************************************************)
\* tenant.limits of the tenants row loaded by authenticateJWT
limits(tenantId) == [plates |-> 2, messages |-> 2]

\* the urls of the POST routes that use checkPlanLimits, by segment
VehiclesUrl == <<"v1", "vehicles">>
MessagesUrl == <<"v1", "messages", "whatsapp", "text">>
Urls == {VehiclesUrl, MessagesUrl}

\* app.use('/v1/vehicles', vehiclesRoutes), app.use('/v1/messages', messagesRoutes)
RouterMount(url) == SubSeq(url, 1, 2)

\* a middleware used by the app itself sees the whole url
AppMount == <<>>

\* req.path inside a router: the url without the mount point of the router
reqPath(mount, url) == SubSeq(url, Len(mount) + 1, Len(url))

\* req.path.includes('/<segment>')
includes(path, segment) == \E i \in 1..Len(path) : path[i] = segment

\* SELECT COUNT(*) FROM vehicles WHERE tenant_id = $1
vehicleCount(tenantId) == vehicles[tenantId]

\* new Date().toISOString().slice(0, 7): the text YYYY-MM of the current month
currentMonth == [format |-> "YYYY-MM", month |-> month]

\* $2::date: a text without a day is not a date, the statement raises
dateCast(text) == IF text.format = "YYYY-MM-DD" THEN <<text.month>> ELSE <<>>

\* SELECT COUNT(*) FROM messages WHERE tenant_id = $1 AND
\* DATE_TRUNC('month', created_at) = DATE_TRUNC('month', <date>)
messageCount(tenantId, date) ==
    Cardinality({i \in 1..Len(msgs) :
                    /\ msgs[i].tenant_id = tenantId
                    /\ msgs[i].created_at = date})

quotaCatchReject == "reject"

\* the catch of checkPlanLimits: logger.error, then next()
quotaCatch == "next"

\* checkPlanLimits for a POST: the plates check when req.path includes
\* /vehicles, the messages check when it includes /messages, then next()
CheckPlanLimits(tenantId, url, mount, dbUp) ==
    LET path == reqPath(mount, url)
        plates == includes(path, "vehicles")
        messages == includes(path, "messages")
        date == dateCast(currentMonth)
        raises == \/ plates /\ ~dbUp
                  \/ messages /\ (~dbUp \/ date = <<>>)
        exceeded == \/ plates /\ vehicleCount(tenantId) >= limits(tenantId).plates
                    \/ /\ messages
                       /\ date # <<>>
                       /\ messageCount(tenantId, date[1])
                             >= limits(tenantId).messages
        decision == IF raises THEN quotaCatch
                    ELSE IF exceeded THEN "reject" ELSE "next"
        kind == IF url = VehiclesUrl THEN "vehicles" ELSE "messages"
    IN  /\ qCount < MaxQuotaReqs
        /\ qCount' = qCount + 1
        /\ qLast' = <<[tenant |-> tenantId, kind |-> kind,
                       path |-> path, storeUp |-> dbUp,
                       vehicles |-> vehicleCount(tenantId),
                       messages |-> messageCount(tenantId, month),
                       raised |-> raises, logged |-> raises,
                       status |-> IF decision = "next" THEN 0 ELSE 429,
                       code |-> IF decision = "next" THEN "next"
                                ELSE "plan_limit_exceeded"]>>
        /\ qFlight' = IF decision = "next"
                      THEN Append(qFlight, [tenant |-> tenantId, kind |-> kind])
                      ELSE qFlight
        /\ UNCHANGED <<now, rateVars, crlVars, idemVars, sendVars, hookVars,
                       vehicles, month, partnerVars, extVars>>

\* the requests in flight but the i-th
withoutFlight(i) == [j \in 1..(Len(qFlight) - 1) |->
                        IF j < i THEN qFlight[j] ELSE qFlight[j + 1]]

\* VehicleController.create behind the middleware, for a plate the tenant does
\* not have yet: the INSERT and 201, or 500 on an error of the database
VehicleCreate(i, dbUp) ==
    /\ qFlight[i].kind = "vehicles"
    /\ vehicles' = IF dbUp THEN [vehicles EXCEPT ![qFlight[i].tenant] = @ + 1]
                   ELSE vehicles
    /\ qFlight' = withoutFlight(i)
    /\ UNCHANGED <<now, rateVars, crlVars, idemVars, sendVars, hookVars,
                   qLast, qCount, month, partnerVars, extVars>>

\* VehicleController.delete: a row of the tenant is removed, 204
VehicleDelete(tenantId) ==
    /\ vehicles[tenantId] > 0
    /\ vehicles' = [vehicles EXCEPT ![tenantId] = @ - 1]
    /\ UNCHANGED <<now, rateVars, crlVars, idemVars, sendVars, hookVars,
                   qLast, qFlight, qCount, month, partnerVars, extVars>>

\* MessageController.sendText behind the middleware: the provider accepts the
\* message and sendText saves the row (202), or the call fails (500)
MessageCreate(i, ok) ==
    /\ qFlight[i].kind = "messages"
    /\ IF ok
       THEN /\ Len(msgs) < MaxRows
            /\ msgs' = saveMessage([tenant_id |-> qFlight[i].tenant,
                                    direction |-> "outbound", state |-> "sent",
                                    provider_id |-> Len(msgs) + 1,
                                    error |-> None, req |-> 0,
                                    created_at |-> month])
       ELSE UNCHANGED msgs
    /\ qFlight' = withoutFlight(i)
    /\ UNCHANGED <<now, rateVars, crlVars, idemVars, sreq, sendQueue, lastEvent,
                   msgLog, hookVars, vehicles, qLast, qCount, month, partnerVars, extVars>>

\* the calendar, month by month
MonthTick ==
    /\ month < MaxMonths
    /\ month' = month + 1
    /\ UNCHANGED <<now, rateVars, crlVars, idemVars, sendVars, hookVars,
                   vehicles, qLast, qFlight, qCount, partnerVars, extVars>>

(***************************************************************************)
(* Partner webhooks: POST /webhooks/partners and triggerPartnerWebhooks.   *)
(***************************************************************************)
\* validEvents of the registration route
validEvents == {"message.delivered", "message.read", "message.failed",
                "button.clicked", "list.selected", "order.updated",
                "order.approved", "order.completed"}

\* the events arrays a registration is tried with; order.shipped is unknown
EventSets == {{"message.delivered"}, {"message.delivered", "message.read"},
              {"message.read", "order.shipped"}, {"order.shipped"}}

\* the events handed to the dispatcher
DispatchEvents == {"message.delivered", "message.read"}

SubIds == 1..MaxSubs

\* lines 101-112: the details of the 400 name valid_events, an identifier that
\* is declared nowhere; building the object raises a ReferenceError, and the
\* catch of the route answers 500
invalidEventsResponse == [status |-> 500, code |-> "internal_error"]

\* the route: 400 for a missing field (or a bad url), the answer to unknown
\* events, otherwise the INSERT with active = true and 201, or 500 when the
\* INSERT fails
PartnerPost(fields, events, dbUp) ==
    LET invalidEvents == events \ validEvents
        answer == IF fields # "complete"
                  THEN [status |-> 400, code |-> "invalid_request"]
                  ELSE IF invalidEvents # {} THEN invalidEventsResponse
                  ELSE IF ~dbUp THEN [status |-> 500, code |-> "internal_error"]
                  ELSE [status |-> 201, code |-> "created"]
    IN  /\ answer.status = 201 => Len(webhooks) < MaxSubs
        /\ webhooks' = IF answer.status = 201
                       THEN Append(webhooks, [id |-> Len(webhooks) + 1,
                                              events |-> events, active |-> TRUE])
                       ELSE webhooks
        /\ regLast' = <<[unknown |-> invalidEvents # {}, fields |-> fields,
                         status |-> answer.status, code |-> answer.code,
                         stored |-> answer.status = 201]>>
        /\ UNCHANGED <<now, rateVars, crlVars, idemVars, sendVars, hookVars,
                       quotaVars, lastDispatch, extVars>>

\* the column active of a subscription is set to false in the database
Deactivate(id) ==
    /\ id <= Len(webhooks)
    /\ webhooks[id].active
    /\ webhooks' = [webhooks EXCEPT ![id] = [@ EXCEPT !.active = FALSE]]
    /\ UNCHANGED <<now, rateVars, crlVars, idemVars, sendVars, hookVars,
                   quotaVars, regLast, lastDispatch, extVars>>

\* SELECT * FROM webhooks WHERE events @> [event] AND active = true, by id
matchingIds(event) ==
    {webhooks[i].id : i \in {j \in 1..Len(webhooks) :
                                webhooks[j].active /\ event \in webhooks[j].events}}

attemptsStopOnFailure(rows, down) ==
    LET failing == {i \in 1..Len(rows) : rows[i].id \in down}
        last == IF failing = {} THEN Len(rows)
                ELSE CHOOSE i \in failing : \A j \in failing : i <= j
    IN  [i \in 1..last |->
            [id |-> rows[i].id, delivered |-> rows[i].id \notin down,
             logged |-> rows[i].id \in down]]

\* the loop of triggerPartnerWebhooks: one sendWebhook per row; an error or
\* timeout of a delivery is logged and the loop goes on
attemptsFor(rows, down) ==
    [i \in 1..Len(rows) |->
        [id |-> rows[i].id, delivered |-> rows[i].id \notin down,
         logged |-> rows[i].id \in down]]

\* triggerPartnerWebhooks(event, data): SELECT the active rows whose events
\* contain the event, then the loop; an error of the SELECT is logged and
\* nothing is sent
TriggerPartnerWebhooks(event, dbUp, down) ==
    LET selected(w) == w.active /\ event \in w.events
        rows == SelectSeq(webhooks, selected)
    IN  /\ lastDispatch' = <<[event |-> event, lookedUp |-> dbUp,
                              logged |-> ~dbUp,
                              attempts |-> IF dbUp THEN attemptsFor(rows, down)
                                           ELSE <<>>]>>
        /\ UNCHANGED <<now, rateVars, crlVars, idemVars, sendVars, hookVars,
                       quotaVars, webhooks, regLast, extVars>>

(***************************************************************************)
(* GET /webhooks/whatsapp: the verification handshake.                     *)
(***************************************************************************)
\* req.query['hub.mode'], ['hub.verify_token'], ['hub.challenge']: absent
\* (undefined) or a text
HubModes == {<<>>, <<"subscribe">>, <<"unsubscribe">>}
HubTokens == {<<>>, <<"v1">>, <<"v2">>}
HubChallenges == {<<>>, <<"c1">>}

\* the values of the environment variable: not set, or a text
VerifyTokens == {<<>>, <<"v1">>}

\* line 17: mode === 'subscribe' && token === process.env.WHATSAPP_...; two
\* undefined values are strictly equal
verified(mode, token) == mode = <<"subscribe">> /\ token = verifyToken

\* the route: 200 with the challenge, or 403 Forbidden; it only logs
VerifyGet(mode, token, challenge) ==
    /\ Len(vfLog) < MaxHandshakes
    /\ vfLog' = Append(vfLog,
                       [mode |-> mode, token |-> token, challenge |-> challenge,
                        status |-> IF verified(mode, token) THEN 200 ELSE 403,
                        body |-> IF verified(mode, token) THEN challenge
                                 ELSE <<"Forbidden">>])
    /\ UNCHANGED <<baseVars, verifyToken, loginVars, orderVars, pipeVars>>

(***************************************************************************)
(* User.authenticate: the account lock after failed logins.                *)
(***************************************************************************)
\* newAttempts >= 5
LockThreshold == 5
\* 30 * 60 * 1000
LockMs == 30 * 60 * 1000
HalfLockMs == LockMs \div 2

\* the columns of the users row that authenticate reads and writes
activeUser == [status |-> "active", login_attempts |-> 0, locked_until |-> <<>>]

idleAuth == [pc |-> "idle", snap |-> activeUser, valid |-> FALSE,
             result |-> None]

\* user.locked_until && new Date() < new Date(user.locked_until)
stillLocked(u) == u.locked_until # <<>> /\ now < u.locked_until[1]

\* lines 172-183: findByEmail, then the answer to a locked account whose
\* locked_until is in the future; valid: the password of the request is the
\* user's password
AuthFind(c, valid) ==
    /\ auth[c].pc = "idle"
    /\ authCount < MaxLogins
    /\ authCount' = authCount + 1
    /\ auth' = [auth EXCEPT ![c] =
          [pc |-> IF user.status # "locked" THEN "verify"
                  ELSE IF stillLocked(user) THEN "done" ELSE "unlock",
           snap |-> user, valid |-> valid,
           result |-> IF user.status = "locked" /\ stillLocked(user)
                      THEN "Conta temporariamente bloqueada" ELSE None]]
    /\ UNCHANGED <<baseVars, verifyVars, orderVars, pipeVars, user, wrongTried, lockEnd, lockBreach>>

\* lines 184-186: the lock is over (or has no end): user.update sets the
\* account active with no attempts, and the object takes the returned row
AuthUnlock(c) ==
    /\ auth[c].pc = "unlock"
    /\ user' = [status |-> "active", login_attempts |-> 0, locked_until |-> <<>>]
    /\ auth' = [auth EXCEPT ![c] = [@ EXCEPT !.pc = "verify", !.snap = user']]
    /\ wrongTried' = 0
    /\ UNCHANGED <<baseVars, verifyVars, orderVars, pipeVars, authCount, lockEnd, lockBreach>>

\* line 190: await crypto.verifyPassword(password, user.password_hash)
AuthVerify(c) ==
    /\ auth[c].pc = "verify"
    /\ auth' = [auth EXCEPT ![c] = [@ EXCEPT !.pc = "update"]]
    /\ wrongTried' = IF auth[c].valid THEN wrongTried ELSE wrongTried + 1
    /\ UNCHANGED <<baseVars, verifyVars, orderVars, pipeVars, user, authCount, lockEnd, lockBreach>>

\* lines 191-209: a wrong password writes the attempts of the object plus one,
\* its status or locked, and locked_until (null below the threshold)
failedLogin(snap) ==
    LET newAttempts == snap.login_attempts + 1
    IN  [status |-> IF newAttempts >= LockThreshold THEN "locked" ELSE snap.status,
         login_attempts |-> newAttempts,
         locked_until |-> IF newAttempts >= LockThreshold
                          THEN <<now + LockMs>> ELSE <<>>]

\* lines 212-216: a right password writes last_login, no attempts and no
\* locked_until; the status is not written
successfulLogin == [user EXCEPT !.login_attempts = 0, !.locked_until = <<>>]

\* the user.update that ends authenticate, and its result
AuthUpdate(c) ==
    /\ auth[c].pc = "update"
    /\ user' = IF auth[c].valid THEN successfulLogin
               ELSE failedLogin(auth[c].snap)
    /\ auth' = [auth EXCEPT ![c] =
          [@ EXCEPT !.pc = "done",
                    !.result = IF auth[c].valid THEN "success"
                               ELSE "Credenciais invalidas"]]
    /\ wrongTried' = IF auth[c].valid THEN 0 ELSE wrongTried
    /\ lockEnd' = IF ~auth[c].valid /\ user'.status = "locked"
                  THEN user'.locked_until ELSE lockEnd
    /\ lockBreach' = (lockBreach \/ (/\ auth[c].valid
                                      /\ lockEnd # <<>>
                                      /\ now < lockEnd[1]))
    /\ UNCHANGED <<baseVars, verifyVars, orderVars, pipeVars, authCount>>

\* the caller gets the result
AuthReturn(c) ==
    /\ auth[c].pc = "done"
    /\ auth' = [auth EXCEPT ![c] = idleAuth]
    /\ UNCHANGED <<baseVars, verifyVars, orderVars, pipeVars, user, authCount, wrongTried, lockEnd,
                   lockBreach>>

\* the clock of the lock, in quarters of an hour
LockTick ==
    /\ now < MaxLockTicks * HalfLockMs
    /\ now' = now + HalfLockMs
    /\ UNCHANGED <<rateVars, crlVars, idemVars, sendVars, hookVars, quotaVars,
                   partnerVars, extVars>>

(***************************************************************************)
(* The orders router: OrderController over the Order model.                *)
(***************************************************************************)
OrderIds == 1..MaxOrders

\* the CHECK constraint of orders.status
OrderStatuses == {"awaiting_approval", "approved", "in_progress", "completed",
                  "cancelled"}

\* req.tenant as the middleware of the router leave it: authenticateJWT sets
\* req.user, validateTenantHeader sets req.tenantId, nothing sets req.tenant
routerTenant == <<>>

\* const { tenant_id } = req.tenant: destructuring undefined raises a TypeError
tenantIdOf(tenant) == IF tenant = <<>> THEN "throws" ELSE tenant[1]

\* the catch of every handler
orderInternalError == [status |-> 500, code |-> "internal_error"]

\* the row written by the INSERT of Order.create: approved takes its default
insertedOrder(status) == [status |-> status, approved |-> FALSE]

\* Order.findById: a plain object with the columns of the row; the spread of
\* new Order(row) copies no method of the class, so update is undefined on it
findById(id) ==
    IF id \in OrderIds /\ orders[id] # <<>>
    THEN <<[row |-> orders[id][1], update |-> FALSE]>>
    ELSE <<>>

\* UPDATE orders SET status = COALESCE($1, status), approved = COALESCE($3,
\* approved): an absent field keeps the column
coalesce(row, data) ==
    [status |-> IF data.status = <<>> THEN row.status ELSE data.status[1],
     approved |-> IF data.approved = <<>> THEN row.approved ELSE data.approved[1]]

\* order.update(data) on the object of findById: a TypeError when the object
\* has no update, an error of the CHECK constraint, or the updated table
orderUpdate(order, id, data) ==
    IF ~order.update THEN <<>>
    ELSE IF coalesce(order.row, data).status \notin OrderStatuses THEN <<>>
    ELSE <<[orders EXCEPT ![id] = <<coalesce(orders[id][1], data)>>]>>

\* the answer of a handler and the table after it
OrderReply(op, id, answer, table) ==
    /\ ordCount < MaxOrderOps
    /\ ordCount' = ordCount + 1
    /\ ordLast' = <<[op |-> op, id |-> id, before |-> orders,
                     status |-> answer.status, code |-> answer.code]>>
    /\ orders' = table
    /\ UNCHANGED <<baseVars, verifyVars, loginVars, pipeVars>>

\* the steps shared by update, approve, start and complete once their checks
\* have passed: order.update(data), then 200, or 500 from the catch
updateOrFail(op, order, id, data) ==
    LET table == orderUpdate(order, id, data)
    IN  IF table = <<>> THEN OrderReply(op, id, orderInternalError, orders)
        ELSE OrderReply(op, id, [status |-> 200, code |-> "ok"], table[1])

\* OrderController.create: the body's status, or awaiting_approval, is
\* inserted as it is
OrderCreate(tenant, valid, status) ==
    LET free == {id \in OrderIds : orders[id] = <<>>}
        id == CHOOSE i \in free : \A j \in free : i <= j
        written == IF status = <<>> THEN "awaiting_approval" ELSE status[1]
    IN  IF tenantIdOf(tenant) = "throws"
        THEN OrderReply("create", 0, orderInternalError, orders)
        ELSE IF ~valid
        THEN OrderReply("create", 0,
                        [status |-> 400, code |-> "invalid_request"], orders)
        ELSE IF written \notin OrderStatuses
        THEN OrderReply("create", 0, orderInternalError, orders)
        ELSE /\ free # {}
             /\ OrderReply("create", id, [status |-> 201, code |-> "created"],
                           [orders EXCEPT ![id] = <<insertedOrder(written)>>])

\* OrderController.update (PATCH): the body goes to order.update as it is
OrderPatch(tenant, id, data) ==
    LET order == findById(id)
    IN  IF tenantIdOf(tenant) = "throws"
        THEN OrderReply("update", id, orderInternalError, orders)
        ELSE IF order = <<>>
        THEN OrderReply("update", id, [status |-> 404, code |-> "not_found"],
                        orders)
        ELSE updateOrFail("update", order[1], id, data)

\* OrderController.approve
OrderApprove(tenant, id) ==
    LET order == findById(id)
    IN  IF tenantIdOf(tenant) = "throws"
        THEN OrderReply("approve", id, orderInternalError, orders)
        ELSE IF order = <<>>
        THEN OrderReply("approve", id, [status |-> 404, code |-> "not_found"],
                        orders)
        ELSE IF order[1].row.approved
        THEN OrderReply("approve", id,
                        [status |-> 400, code |-> "already_approved"], orders)
        ELSE updateOrFail("approve", order[1], id,
                          [status |-> <<"approved">>, approved |-> <<TRUE>>])

\* OrderController.start
OrderStart(tenant, id) ==
    LET order == findById(id)
    IN  IF tenantIdOf(tenant) = "throws"
        THEN OrderReply("start", id, orderInternalError, orders)
        ELSE IF order = <<>>
        THEN OrderReply("start", id, [status |-> 404, code |-> "not_found"],
                        orders)
        ELSE IF ~order[1].row.approved
        THEN OrderReply("start", id,
                        [status |-> 400, code |-> "not_approved"], orders)
        ELSE IF order[1].row.status = "in_progress"
        THEN OrderReply("start", id,
                        [status |-> 400, code |-> "already_started"], orders)
        ELSE IF order[1].row.status = "completed"
        THEN OrderReply("start", id,
                        [status |-> 400, code |-> "already_completed"], orders)
        ELSE updateOrFail("start", order[1], id,
                          [status |-> <<"in_progress">>, approved |-> <<>>])

\* OrderController.complete
OrderComplete(tenant, id) ==
    LET order == findById(id)
    IN  IF tenantIdOf(tenant) = "throws"
        THEN OrderReply("complete", id, orderInternalError, orders)
        ELSE IF order = <<>>
        THEN OrderReply("complete", id, [status |-> 404, code |-> "not_found"],
                        orders)
        ELSE IF order[1].row.status # "in_progress"
        THEN OrderReply("complete", id,
                        [status |-> 400, code |-> "invalid_status"], orders)
        ELSE updateOrFail("complete", order[1], id,
                          [status |-> <<"completed">>, approved |-> <<>>])

(***************************************************************************)
(* POST /v1/messages/whatsapp/text through the middleware of its route.     *)
(***************************************************************************)
PipeReqs == 1..MaxPipeReqs

textRouteIdemFirst ==
    <<"checkIdempotency", "whatsappRateLimiter", "checkPlanLimits", "sendText">>

\* router.post('/whatsapp/text', whatsappRateLimiter, checkPlanLimits,
\* checkIdempotency, MessageController.sendText)
textRoute ==
    <<"whatsappRateLimiter", "checkPlanLimits", "checkIdempotency", "sendText">>

\* pos: the handler of the route that runs next; trace: the handlers that ran
newPipe == [pos |-> 0, tenant |-> None, header |-> None, trace |-> <<>>,
            status |-> 0, code |-> None, reads |-> 0, writes |-> 0,
            ran |-> FALSE, replay |-> FALSE, intercept |-> FALSE]

\* the tenant and the recipient of the requests
PipeTenant == "t1"
PipePhone == "p1"

\* the decision of checkPlanLimits, as CheckPlanLimits takes it
planDecision(tenantId, url, mount, dbUp) ==
    LET path == reqPath(mount, url)
        plates == includes(path, "vehicles")
        messages == includes(path, "messages")
        date == dateCast(currentMonth)
        raises == \/ plates /\ ~dbUp
                  \/ messages /\ (~dbUp \/ date = <<>>)
        exceeded == \/ plates /\ vehicleCount(tenantId) >= limits(tenantId).plates
                    \/ /\ messages
                       /\ date # <<>>
                       /\ messageCount(tenantId, date[1])
                             >= limits(tenantId).messages
    IN  IF raises THEN quotaCatch ELSE IF exceeded THEN "reject" ELSE "next"

\* the request has passed authenticateJWT, validateTenantHeader and
\* requireScope of the router and reaches the handlers of the route
PipeArrive(r, tenantId, header) ==
    /\ pipe[r].pos = 0
    \* requests are numbered in arrival order
    /\ \A q \in PipeReqs : q < r => pipe[q].pos # 0
    /\ pipe' = [pipe EXCEPT ![r] =
                    [@ EXCEPT !.pos = 1, !.tenant = tenantId, !.header = header]]
    /\ UNCHANGED <<baseVars, verifyVars, loginVars, orderVars>>

\* a handler ends the request with a response
answered(r, name, status, code) ==
    [pipe[r] EXCEPT !.pos = Len(textRoute) + 1, !.status = status,
                    !.code = code, !.trace = Append(@, name)]

\* a handler calls next()
passedOn(r, name) ==
    [pipe[r] EXCEPT !.pos = @ + 1, !.trace = Append(@, name)]

\* whatsappRateLimiter: 429 above the limit of the key, otherwise next()
PipeRateLimit(r) ==
    /\ pipe[r].pos \in 1..Len(textRoute)
    /\ textRoute[pipe[r].pos] = "whatsappRateLimiter"
    /\ countHit(pipe[r].tenant, PipePhone)
    /\ pipe' = [pipe EXCEPT ![r] =
          IF totalHitsOf(whatsappKey(pipe[r].tenant, PipePhone)) > rlCfg.max
          THEN answered(r, "whatsappRateLimiter", 429, "rate_limit_exceeded")
          ELSE passedOn(r, "whatsappRateLimiter")]
    /\ UNCHANGED <<now, rlCfg, crlVars, idemVars, sendVars, hookVars, quotaVars,
                   partnerVars, verifyVars, loginVars, orderVars>>

\* checkPlanLimits inside the messages router
PipePlanLimits(r, dbUp) ==
    /\ pipe[r].pos \in 1..Len(textRoute)
    /\ textRoute[pipe[r].pos] = "checkPlanLimits"
    /\ pipe' = [pipe EXCEPT ![r] =
          IF planDecision(pipe[r].tenant, MessagesUrl, RouterMount(MessagesUrl),
                          dbUp) = "reject"
          THEN answered(r, "checkPlanLimits", 429, "plan_limit_exceeded")
          ELSE passedOn(r, "checkPlanLimits")]
    /\ UNCHANGED <<baseVars, verifyVars, loginVars, orderVars>>

\* checkIdempotency with the store up: no header, next(); a live record is
\* replayed; otherwise res.json is overridden and next() is called
PipeIdempotency(r) ==
    LET key == <<pipe[r].tenant, pipe[r].header>>
        name == "checkIdempotency"
    IN  /\ pipe[r].pos \in 1..Len(textRoute)
        /\ textRoute[pipe[r].pos] = name
        /\ pipe' = [pipe EXCEPT ![r] =
              IF pipe[r].header = None THEN passedOn(r, name)
              ELSE IF ~isUuid(pipe[r].header)
              THEN answered(r, name, 400, "invalid_request")
              ELSE IF idemGet(key) # <<>>
              THEN [answered(r, name, JsonParse(idemGet(key)[1]).status,
                             JsonParse(idemGet(key)[1]).data.status)
                       EXCEPT !.reads = 1, !.replay = TRUE]
              ELSE [passedOn(r, name) EXCEPT !.reads = 1, !.intercept = TRUE]]
        /\ UNCHANGED <<baseVars, verifyVars, loginVars, orderVars>>

\* MessageController.sendText: the provider takes the message and the row is
\* saved (202), or the call fails (500); the answer goes through res.json,
\* which caches it when checkIdempotency has overridden it
PipeSendText(r, ok) ==
    LET key == <<pipe[r].tenant, pipe[r].header>>
        status == IF ok THEN 202 ELSE 500
        data == IF ok THEN [message_id |-> r, status |-> "sent"]
                ELSE [message_id |-> 0, status |-> "internal_error"]
    IN  /\ pipe[r].pos \in 1..Len(textRoute)
        /\ textRoute[pipe[r].pos] = "sendText"
        /\ pipe' = [pipe EXCEPT ![r] =
              [answered(r, "sendText", status, data.status)
                  EXCEPT !.ran = TRUE,
                         !.writes = IF pipe[r].intercept THEN 1 ELSE 0]]
        /\ IF ok
           THEN /\ Len(msgs) < MaxRows
                /\ msgs' = saveMessage([tenant_id |-> pipe[r].tenant,
                                        direction |-> "outbound", state |-> "sent",
                                        provider_id |-> r, error |-> None,
                                        req |-> r, created_at |-> month])
           ELSE UNCHANGED msgs
        /\ idem' = IF pipe[r].intercept
                   THEN [idem EXCEPT ![key] =
                           <<[text |-> JsonStringify([status |-> status,
                                                      data |-> data]),
                              exp |-> now + IdemTtlSeconds * 1000]>>]
                   ELSE idem
        /\ UNCHANGED <<now, rateVars, crlVars, ireq, execs, firstDone, exited,
                       sreq, sendQueue, lastEvent, msgLog, hookVars, quotaVars,
                       partnerVars, verifyVars, loginVars, orderVars>>

\* the state after start-up, but for the limiter's configuration
InitState ==
    /\ now = 0
    /\ rlHits = [k \in RlKeys |-> 0]
    /\ rlReset = [k \in RlKeys |-> 0]
    /\ rlLog = [k \in RlKeys |-> <<>>]
    /\ rlCount = 0
    /\ rlLast = <<>>
    /\ rdCtr = [k \in Tenants |-> 0]
    /\ rdExp = [k \in Tenants |-> 0]
    /\ crl = [c \in Callers |-> idleCall]
    /\ idem = [k \in IdemKeys |-> <<>>]
    /\ ireq = [r \in IdemReqs |-> newReq]
    /\ execs = 0
    /\ firstDone = [k \in IdemKeys |-> <<>>]
    /\ exited = FALSE
    /\ sreq = [r \in SendReqs |-> newSend]
    /\ msgs = <<>>
    /\ sendQueue = <<>>
    /\ lastEvent = <<>>
    /\ whLast = <<>>
    /\ whRuns = 0
    /\ whTasks = <<>>
    /\ msgLog = <<>>
    /\ vehicles = [t \in Tenants |-> 0]
    /\ qLast = <<>>
    /\ qFlight = <<>>
    /\ qCount = 0
    /\ month = 0
    /\ webhooks = <<>>
    /\ regLast = <<>>
    /\ lastDispatch = <<>>
    /\ vfLog = <<>>
    /\ user = activeUser
    /\ auth = [c \in Callers |-> idleAuth]
    /\ authCount = 0
    /\ wrongTried = 0
    /\ lockEnd = <<>>
    /\ lockBreach = FALSE
    /\ ordLast = <<>>
    /\ ordCount = 0
    /\ pipe = [r \in PipeReqs |-> newPipe]

\* whatsappRateLimiter = createRateLimiter(60000, 70, ...)
Init ==
    /\ InitState
    /\ rlCfg = [windowMs |-> 60000, max |-> 70]
    /\ verifyToken = <<"v1">>
    /\ orders = [id \in OrderIds |-> <<>>]

\* createRateLimiter(windowMs, maxRequests, ...) and checkRateLimit(key, limit,
\* windowMs) take any window and limit
InitRate ==
    /\ InitState
    /\ rlCfg \in [windowMs : WindowsMs, max : 1..MaxLimit]
    /\ verifyToken = <<"v1">>
    /\ orders = [id \in OrderIds |-> <<>>]

Paths == {"/v1/messages", "/webhooks"}

NextRate ==
    \/ \E t \in Tenants, p \in Phones, path \in Paths : RateLimitMw(t, p, path)
    \/ Tick

SpecRate == InitRate /\ [][NextRate]_vars

NextCrl ==
    \/ \E c \in Callers, k \in Tenants, up \in BOOLEAN : CrlGet(c, k, up)
    \/ \E c \in Callers, up \in BOOLEAN : CrlIncr(c, up)
    \/ \E c \in Callers : CrlReturn(c)
    \/ Tick

SpecCrl == InitRate /\ [][NextCrl]_vars

NextIdem ==
    \/ \E r \in IdemReqs, t \in Tenants, h \in IdemHeaders, up \in BOOLEAN :
          IdemBegin(r, t, h, up)
    \/ \E r \in IdemReqs, status \in {202, 500}, up \in BOOLEAN :
          IdemRespond(r, status, up)
    \/ IdemTick

SpecIdem == Init /\ [][NextIdem]_vars

\* checkIdempotency at one instant: what it does with the header does not
\* depend on the clock
NextIdemKey ==
    \/ \E r \in IdemReqs, t \in Tenants, h \in IdemHeaders, up \in BOOLEAN :
          IdemBegin(r, t, h, up)
    \/ \E r \in IdemReqs, status \in {202, 500}, up \in BOOLEAN :
          IdemRespond(r, status, up)

SpecIdemKey == Init /\ [][NextIdemKey]_vars

NextSend ==
    \/ \E r \in SendReqs, t \in Tenants, valid \in BOOLEAN, f \in 0..QueueAttempts :
          CtlSendText(r, t, valid, f)
    \/ \E r \in SendReqs, dbUp \in BOOLEAN : ProviderReply(r, dbUp)
    \/ \E t \in Tenants : QueueMessage(t)
    \/ Tick

SpecSend == Init /\ [][NextSend]_vars

ProviderIds == 1..MaxSendReqs \cup InboundIds

NextMsg ==
    \/ \E r \in SendReqs, t \in Tenants : CtlSendText(r, t, TRUE, 0)
    \/ \E r \in SendReqs, dbUp \in BOOLEAN : ProviderReply(r, dbUp)
    \/ \E id \in ProviderIds, st \in StatusValues, dbUp \in BOOLEAN :
          ProcessStatusUpdate(id, st, dbUp)
    \/ \E id \in InboundIds, dbUp \in BOOLEAN : ProcessInboundMessage(id, dbUp)

SpecMsg == Init /\ [][NextMsg]_vars

NextHook ==
    \* the payload is looked at only once the signature has been accepted
    \/ \E text \in BodyTexts, sig \in SigHeaders, payload \in Payloads :
          /\ (verifyHmac(reserialized(text), sig, WEBHOOK_SECRET) # "true")
                => payload.kind = "other"
          /\ WebhookPost(text, sig, payload)
    \/ \E i \in 1..MaxHookRuns, dbUp \in BOOLEAN :
          i <= Len(whTasks) /\ ProcessWebhook(i, dbUp)

SpecHook == Init /\ [][NextHook]_vars

NextQuota ==
    \/ \E t \in Tenants, url \in Urls, app \in BOOLEAN, dbUp \in BOOLEAN :
          CheckPlanLimits(t, url, IF app THEN AppMount ELSE RouterMount(url), dbUp)
    \/ \E i \in 1..MaxQuotaReqs, dbUp \in BOOLEAN :
          i <= Len(qFlight) /\ VehicleCreate(i, dbUp)
    \/ \E t \in Tenants : VehicleDelete(t)
    \/ \E i \in 1..MaxQuotaReqs, ok \in BOOLEAN :
          i <= Len(qFlight) /\ MessageCreate(i, ok)
    \/ MonthTick

SpecQuota == Init /\ [][NextQuota]_vars

NextPartner ==
    \/ \E fields \in {"complete", "missing"}, events \in EventSets,
          dbUp \in BOOLEAN : PartnerPost(fields, events, dbUp)
    \/ \E id \in SubIds : Deactivate(id)
    \* down: the subscriptions whose endpoint fails or times out, among those
    \* that are contacted
    \/ \E event \in DispatchEvents, dbUp \in BOOLEAN :
          \E down \in SUBSET (IF dbUp THEN matchingIds(event) ELSE {}) :
             TriggerPartnerWebhooks(event, dbUp, down)

SpecPartner == Init /\ [][NextPartner]_vars

\* the handshake under every setting of the environment variable
InitVerify ==
    /\ InitState
    /\ rlCfg = [windowMs |-> 60000, max |-> 70]
    /\ verifyToken \in VerifyTokens
    /\ orders = [id \in OrderIds |-> <<>>]

NextVerify ==
    \E mode \in HubModes, token \in HubTokens, challenge \in HubChallenges :
        VerifyGet(mode, token, challenge)

SpecVerify == InitVerify /\ [][NextVerify]_vars

NextLogin ==
    \/ \E c \in Callers, valid \in BOOLEAN : AuthFind(c, valid)
    \/ \E c \in Callers : AuthUnlock(c)
    \/ \E c \in Callers : AuthVerify(c)
    \/ \E c \in Callers : AuthUpdate(c)
    \/ \E c \in Callers : AuthReturn(c)
    \/ LockTick

SpecLogin == Init /\ [][NextLogin]_vars

\* the orders table at start-up: the rows as Order.create inserts them
InitOrder ==
    /\ InitState
    /\ rlCfg = [windowMs |-> 60000, max |-> 70]
    /\ verifyToken = <<"v1">>
    /\ orders \in [OrderIds -> {<<>>, <<insertedOrder("awaiting_approval")>>}]

PatchBodies == [status : {<<>>, <<"in_progress">>, <<"completed">>},
                approved : {<<>>, <<TRUE>>}]

NextOrder ==
    \/ \E valid \in BOOLEAN,
          status \in {<<>>} \cup {<<st>> : st \in OrderStatuses} :
          OrderCreate(routerTenant, valid, status)
    \/ \E id \in OrderIds, data \in PatchBodies :
          OrderPatch(routerTenant, id, data)
    \/ \E id \in OrderIds : OrderApprove(routerTenant, id)
    \/ \E id \in OrderIds : OrderStart(routerTenant, id)
    \/ \E id \in OrderIds : OrderComplete(routerTenant, id)

SpecOrder == InitOrder /\ [][NextOrder]_vars

\* the chain of the route under a limiter that the requests can exhaust
InitPipe ==
    /\ InitState
    /\ rlCfg \in [windowMs : {60000}, max : 1..MaxLimit]
    /\ verifyToken = <<"v1">>
    /\ orders = [id \in OrderIds |-> <<>>]

NextPipe ==
    \/ \E r \in PipeReqs, h \in {None} \cup Uuids :
          PipeArrive(r, PipeTenant, h)
    \/ \E r \in PipeReqs : PipeRateLimit(r)
    \/ \E r \in PipeReqs, dbUp \in BOOLEAN : PipePlanLimits(r, dbUp)
    \/ \E r \in PipeReqs : PipeIdempotency(r)
    \/ \E r \in PipeReqs, ok \in BOOLEAN : PipeSendText(r, ok)

SpecPipe == InitPipe /\ [][NextPipe]_vars

(***************************************************************************)
(* C1: N+1 sequential requests for one key inside a window: the first N    *)
(* pass, the N+1th gets 429 rate_limit_exceeded with 0 < Retry-After <= W. *)
(***************************************************************************)
LogShape(k) ==
    \A i \in 1..Len(rlLog[k]) :
        /\ (rlLog[k][i].status = 200) <=> (i <= rlCfg.max)
        /\ rlLog[k][i].status # 200 =>
              /\ rlLog[k][i].status = 429
              /\ rlLog[k][i].code = "rate_limit_exceeded"
              /\ rlLog[k][i].retryAfter > 0

\* C1 as stated: Retry-After (seconds) is at most the window W
C1_Original ==
    \A k \in RlKeys :
        /\ LogShape(k)
        /\ \A i \in 1..Len(rlLog[k]) :
              rlLog[k][i].status = 429 =>
                  rlLog[k][i].retryAfter * 1000 <= rlCfg.windowMs

\* C1 amended: as C1, with Retry-After (whole seconds, the window rounded up)
\* > 0 and less than W + 1 s
C1_RetryAfterCeil ==
    \A k \in RlKeys :
        /\ LogShape(k)
        /\ \A i \in 1..Len(rlLog[k]) :
              rlLog[k][i].status = 429 =>
                  rlLog[k][i].retryAfter * 1000 < rlCfg.windowMs + 1000

C1_Witness ==
    \E k \in RlKeys :
        /\ Len(rlLog[k]) = rlCfg.max + 1
        /\ rlLog[k][rlCfg.max + 1].status = 429
        /\ rlCfg.windowMs = 1500

(***************************************************************************)
(* C2: under any interleaving of checkRateLimit calls for one key, the     *)
(* counter of a live window never exceeds the limit.                       *)
(***************************************************************************)
C2_AtMostLimit ==
    \A k \in Tenants : redisGet(k) <= rlCfg.max


(***************************************************************************)
(* C3: a request with the Idempotency-Key of a response completed less     *)
(* than 24h before gets that first response's status and body and does not *)
(* run the business logic; once the record has expired the same key runs   *)
(* the business logic again.                                               *)
(***************************************************************************)
withinTtlOfFirst(r) ==
    /\ ireq[r].first # <<>>
    /\ ireq[r].began < ireq[r].first[1].at + IdemTtlSeconds * 1000

C3_ReplayFirstResponse ==
    \A r \in IdemReqs :
        (ireq[r].pc # "new" /\ isUuid(ireq[r].header) /\ ireq[r].redisUp) =>
            /\ withinTtlOfFirst(r) =>
                  (ireq[r].replay /\ ireq[r].resp = <<ireq[r].first[1].resp>>)
            /\ ireq[r].replay => withinTtlOfFirst(r)

(***************************************************************************)
(* C4: a status update that would move a message backward on the ladder    *)
(* pending < sent < delivered < read is ignored: delivered then sent       *)
(* leaves the message delivered.                                           *)
(***************************************************************************)
Rank(state) == CASE state = "pending" -> 0
                 [] state = "sent" -> 1
                 [] state = "delivered" -> 2
                 [] state = "read" -> 3
                 [] OTHER -> 4

OnLadder(state) == state \in {"pending", "sent", "delivered", "read"}

C4_NeverBackward ==
    [][\A i \in 1..Len(msgs) :
          (msgs[i].direction = "outbound" /\ OnLadder(msgs[i].state)
             /\ OnLadder(msgs'[i].state))
          => Rank(msgs'[i].state) >= Rank(msgs[i].state)]_vars

(***************************************************************************)
(* C5: every state change of an outbound message is pending->sent,         *)
(* sent->delivered, delivered->read, pending->failed or sent->failed; any  *)
(* other requested status leaves the state unchanged.                      *)
(***************************************************************************)
AllowedTransitions ==
    {<<"pending", "sent">>, <<"sent", "delivered">>, <<"delivered", "read">>,
     <<"pending", "failed">>, <<"sent", "failed">>}

C5_OnlyLadderTransitions ==
    [][\A i \in 1..Len(msgs) :
          (msgs[i].direction = "outbound" /\ msgs'[i].state # msgs[i].state)
          => <<msgs[i].state, msgs'[i].state>> \in AllowedTransitions]_vars

(***************************************************************************)
(* C6: the provider fails the first 4 attempts and succeeds on the 5th:    *)
(* the message ends sent with its provider_id, after exactly 5 provider    *)
(* calls spaced 2s, 4s, 8s and 16s.                                        *)
(***************************************************************************)
RowsOf(r) == {i \in 1..Len(msgs) : msgs[i].req = r}

C6_FifthAttemptSucceeds ==
    \A r \in SendReqs :
        (sreq[r].pc = "done" /\ sreq[r].fails = 4) =>
            /\ \E i \in RowsOf(r) : /\ msgs[i].state = "sent"
                                    /\ msgs[i].provider_id \in ProviderIds
            /\ Len(sreq[r].calls) = 5
            /\ \A n \in 1..(Len(sreq[r].calls) - 1) :
                  sreq[r].calls[n + 1] - sreq[r].calls[n]
                      = QueueBackoffMs * 2^(n - 1)

(***************************************************************************)
(* C7: every attempt fails: the message ends as a persisted row in state   *)
(* failed with the error recorded, after at most 5 attempts.               *)
(***************************************************************************)
C7_ExhaustedEndsFailed ==
    \A r \in SendReqs :
        (sreq[r].pc = "done" /\ sreq[r].fails >= QueueAttempts) =>
            /\ \E i \in RowsOf(r) : /\ msgs[i].state = "failed"
                                    /\ msgs[i].error # None
            /\ Len(sreq[r].calls) <= QueueAttempts

(***************************************************************************)
(* C8: the send request is acknowledged before the provider call           *)
(* completes, and a failing provider call never turns the response into an *)
(* error.                                                                  *)
(***************************************************************************)
C8_AckBeforeProvider ==
    \A r \in SendReqs :
        /\ sreq[r].pc = "calling" => sreq[r].resp # <<>>
        /\ (sreq[r].pc = "done" /\ Len(sreq[r].calls) > 0) =>
              sreq[r].resp[1].status = 202

(***************************************************************************)
(* C9: a POST whose signature header is sha256=HMAC(secret, B) for its     *)
(* body B is answered 200; the same signature with a body that differs     *)
(* from B in a single byte is answered 401.                                *)
(***************************************************************************)
SingleByteMutation(b1, b2) ==
    /\ Len(b1) = Len(b2)
    /\ Cardinality({i \in 1..Len(b1) : b1[i] # b2[i]}) = 1

SignatureOf(text) == <<SigHeader("sha256=", generateHmac(text, WEBHOOK_SECRET))>>

C9_SignatureOverRawBody ==
    whLast # <<>> =>
        /\ whLast[1].sig = SignatureOf(whLast[1].body) => whLast[1].status = 200
        /\ \A b \in BodyTexts :
              (whLast[1].sig = SignatureOf(b)
                 /\ SingleByteMutation(whLast[1].body, b))
              => whLast[1].status = 401

(***************************************************************************)
(* C10: a POST whose signature header is missing or differs from the       *)
(* expected signature, whatever its length, is answered 401 and            *)
(* processWebhook is not invoked for it.                                   *)
(***************************************************************************)
ExpectedSignature(text) ==
    <<SigHeader("sha256=", generateHmac(reserialized(text), WEBHOOK_SECRET))>>

C10_BadSignatureIs401 ==
    whLast # <<>> =>
        (whLast[1].sig # ExpectedSignature(whLast[1].body) =>
            /\ whLast[1].status = 401
            /\ ~whLast[1].processed)

(***************************************************************************)
(* C11: a POST that passed the signature verification is answered 200,     *)
(* whatever its payload and however the processing started by it ends; a   *)
(* rejection of the processing is logged by the route and changes nothing  *)
(* of the answer.                                                          *)
(***************************************************************************)
C11_AckRegardless ==
    /\ (whLast # <<>> /\ whLast[1].processed) => whLast[1].status = 200
    /\ \A i \in 1..Len(whTasks) :
          /\ whTasks[i].status = 200
          /\ whTasks[i].pc = "rejected" => "route" \in whTasks[i].logged

C11_Witness ==
    \E i, j \in 1..Len(whTasks) :
        /\ whTasks[i].pc = "rejected" /\ whTasks[i].status = 200
        /\ whTasks[j].pc = "resolved" /\ whTasks[j].logged # {}
        /\ whTasks[j].status = 200

(***************************************************************************)
(* C12: a POST /v1/vehicles, through the router mounted at /v1/vehicles,   *)
(* of a tenant that already has limits.plates vehicles is answered         *)
(* plan_limit_exceeded by checkPlanLimits and is not handed to the         *)
(* controller, so no vehicle is inserted.                                  *)
(***************************************************************************)
mountedPath(url) == reqPath(RouterMount(url), url)

C12_PlatesLimitAsMounted ==
    qLast # <<>> =>
        ((/\ qLast[1].kind = "vehicles"
          /\ qLast[1].path = mountedPath(VehiclesUrl)
          /\ qLast[1].storeUp
          /\ qLast[1].vehicles >= limits(qLast[1].tenant).plates)
         => /\ qLast[1].status = 429
            /\ qLast[1].code = "plan_limit_exceeded")

(***************************************************************************)
(* C13: the plates check compares the present number of vehicle rows with  *)
(* limits.plates, so a create of a tenant below the limit (also just after *)
(* a delete) is admitted; the messages check counts the messages created   *)
(* in the current calendar month and rejects at limits.messages until the  *)
(* month changes.                                                          *)
(***************************************************************************)
C13_CountAndMonthBased ==
    qLast # <<>> =>
        LET q == qLast[1]
        IN  /\ (q.kind = "vehicles" /\ q.storeUp
                   /\ q.vehicles < limits(q.tenant).plates)
                => q.code = "next"
            /\ (q.kind = "messages" /\ includes(q.path, "messages") /\ q.storeUp)
                => (q.code = "plan_limit_exceeded"
                      <=> q.messages >= limits(q.tenant).messages)

(***************************************************************************)
(* C16: when the count query of a quota check raises, checkPlanLimits logs *)
(* the error and hands the request to the business logic; it never rejects *)
(* because of the error.                                                   *)
(***************************************************************************)
C16_QuotaFailsOpen ==
    [][(qCount' = qCount + 1 /\ qLast'[1].raised) =>
          /\ qLast'[1].code = "next"
          /\ qLast'[1].logged
          /\ qFlight' = Append(qFlight, [tenant |-> qLast'[1].tenant,
                                         kind |-> qLast'[1].kind])]_vars

C16_Witness ==
    /\ qLast # <<>>
    /\ qLast[1].raised /\ ~qLast[1].storeUp
    /\ qLast[1].kind = "vehicles"
    /\ qLast[1].code = "next"
    /\ qLast[1].vehicles >= limits(qLast[1].tenant).plates

(***************************************************************************)
(* C14: when the read or the increment of the rate-limit counter raises    *)
(* during an admission check, the request is rejected.                     *)
(***************************************************************************)
C14_RateLimitFailsClosed ==
    \A c \in Callers :
        (crl[c].pc = "done" /\ crl[c].error) => ~crl[c].allowed

(***************************************************************************)
(* C15: when the idempotency store fails, on the lookup at the start of a  *)
(* request or on the write that caches its response, the request is served *)
(* normally: the caller gets the response of the business logic, no error  *)
(* response comes from the failure and the process keeps running.          *)
(***************************************************************************)
C15_IdempotencyFailsOpen ==
    /\ ~exited
    /\ \A r \in IdemReqs :
          (ireq[r].pc # "new" /\ isUuid(ireq[r].header)
             /\ (~ireq[r].redisUp \/ ~ireq[r].writeUp))
          => /\ ~ireq[r].replay
             /\ ireq[r].pc = "done" => (ireq[r].ran /\ ireq[r].resp # <<>>)

C18_StatusOnlyUpdates ==
    [][(sreq' = sreq /\ msgLog' = msgLog)
       => /\ Len(msgs') = Len(msgs)
          /\ \A i \in 1..Len(msgs) :
                \/ msgs'[i] = msgs[i]
                \/ \E st \in StatusValues :
                      msgs'[i] = [msgs[i] EXCEPT !.state = st]]_vars

C18_Witness ==
    /\ lastEvent = <<"message", "delivered", 1>>
    /\ \E i \in 1..Len(msgs) :
          msgs[i].provider_id = 1 /\ msgs[i].state = "delivered"
    /\ Len(msgs) = 2

(***************************************************************************)
(* C19: for an event handed to triggerPartnerWebhooks there is exactly one *)
(* delivery attempt per subscription that is active and lists the event,   *)
(* none for the others and none twice; a failed or timed-out delivery is   *)
(* logged, not retried, and the remaining subscriptions are still tried.   *)
(***************************************************************************)
exactlyOnce(d) ==
    LET ids == {d.attempts[i].id : i \in 1..Len(d.attempts)}
    IN  /\ ids = matchingIds(d.event)
        /\ Cardinality(ids) = Len(d.attempts)
        /\ \A i \in 1..Len(d.attempts) :
              ~d.attempts[i].delivered => d.attempts[i].logged

\* C19 as stated: for every event handed to the dispatcher
C19_Original ==
    [][lastDispatch' # lastDispatch => exactlyOnce(lastDispatch'[1])]_vars

\* C19 amended: as C19 when the lookup of the subscriptions succeeds; when it
\* raises, the error is logged and no delivery is attempted
C19_FanOutAfterLookup ==
    [][lastDispatch' # lastDispatch =>
          LET d == lastDispatch'[1]
          IN  /\ d.lookedUp => exactlyOnce(d)
              /\ ~d.lookedUp => (d.attempts = <<>> /\ d.logged)]_vars

C19_Witness ==
    /\ lastDispatch # <<>>
    /\ lastDispatch[1].lookedUp
    /\ Len(lastDispatch[1].attempts) = 2
    /\ ~lastDispatch[1].attempts[1].delivered
    /\ lastDispatch[1].attempts[2].delivered
    /\ Len(webhooks) = 3
    /\ \E i \in 1..3 : ~webhooks[i].active
                          /\ lastDispatch[1].event \in webhooks[i].events

(***************************************************************************)
(* C20: a registration whose events list has a name outside the closed set *)
(* of validEvents is answered 400 and stores no subscription row.          *)
(***************************************************************************)
C20_UnknownEventIs400 ==
    regLast # <<>> =>
        ((regLast[1].fields = "complete" /\ regLast[1].unknown)
         => (regLast[1].status = 400 /\ ~regLast[1].stored))

(***************************************************************************)
(* C21: the handshake answers 200 with the challenge only when the         *)
(* verify-token of the request equals a configured secret; a wrong token,  *)
(* a missing token or no configured secret get 403; the handshake changes  *)
(* no state, so the same request gets the same answer again.               *)
(***************************************************************************)
tokenMatches(h) ==
    h.token # <<>> /\ verifyToken # <<>> /\ h.token = verifyToken

C21_HandshakeOnlyOnMatch ==
    /\ \A i \in 1..Len(vfLog) :
          /\ vfLog[i].status = 200 =>
                (tokenMatches(vfLog[i]) /\ vfLog[i].body = vfLog[i].challenge)
          /\ ~tokenMatches(vfLog[i]) => vfLog[i].status = 403
    /\ \A i, j \in 1..Len(vfLog) :
          (vfLog[i].mode = vfLog[j].mode /\ vfLog[i].token = vfLog[j].token
             /\ vfLog[i].challenge = vfLog[j].challenge)
          => (vfLog[i].status = vfLog[j].status /\ vfLog[i].body = vfLog[j].body)

(***************************************************************************)
(* C22: the limiter's decision for a request depends only on the earlier   *)
(* requests of the same tenant and recipient: a request changes the counter *)
(* of its own key and no other, and it is rejected exactly when its own     *)
(* key has used up the limit in its running window, so an exhausted tenant  *)
(* or recipient never causes the rejection of another one.                  *)
(***************************************************************************)
C22_PerKeyIsolation ==
    [][rlCount' = rlCount + 1 =>
          LET q == rlLast'[1]
              k == <<q.tenant, q.phone>>
          IN  /\ \A j \in RlKeys \ {k} :
                    /\ rlHits'[j] = rlHits[j]
                    /\ rlReset'[j] = rlReset[j]
                    /\ rlLog'[j] = rlLog[j]
              /\ q.status = 429 <=>
                    (rlReset[k] > now /\ rlHits[k] >= rlCfg.max)]_vars

\* a recipient and a tenant are admitted while another recipient of the
\* tenant is being rejected in its running window
C22_Witness ==
    \E t \in Tenants, p \in Phones :
        /\ rlReset[<<t, p>>] > now
        /\ rlHits[<<t, p>>] > rlCfg.max
        /\ rlLast # <<>> /\ rlLast[1].status = 200
        /\ rlLast[1].tenant = t /\ rlLast[1].phone # p
        /\ \E u \in Tenants \ {t} : rlHits[<<u, p>>] > 0

rowOf(table, id) == table[id][1]

mustReject(q) ==
    /\ q.id \in OrderIds
    /\ q.before[q.id] # <<>>
    /\ \/ q.op = "approve" /\ rowOf(q.before, q.id).approved
       \/ q.op = "start" /\ (\/ ~rowOf(q.before, q.id).approved
                              \/ rowOf(q.before, q.id).status
                                    \in {"in_progress", "completed"})
       \/ q.op = "complete" /\ rowOf(q.before, q.id).status # "in_progress"

C24_OrderWorkflow ==
    /\ \A id \in OrderIds :
          (orders[id] # <<>> /\ rowOf(orders, id).status = "in_progress")
          => rowOf(orders, id).approved
    /\ ordLast # <<>> =>
          LET q == ordLast[1]
          IN  /\ \A id \in OrderIds :
                    (orders[id] # <<>> /\ rowOf(orders, id).status = "completed"
                       /\ orders[id] # q.before[id])
                    => (q.before[id] # <<>>
                          /\ rowOf(q.before, id).status = "in_progress")
              /\ mustReject(q) => (q.status = 400 /\ orders = q.before)

(***************************************************************************)
(* C25: the Retry-After of a rejected request is the time that remains     *)
(* until the running window of its key ends (in whole seconds), not the    *)
(* length of the window.                                                   *)
(***************************************************************************)
C25_RetryAfterRemaining ==
    [][(rlCount' = rlCount + 1 /\ rlLast'[1].status = 429) =>
          LET k == <<rlLast'[1].tenant, rlLast'[1].phone>>
              answer == rlLog'[k][Len(rlLog'[k])]
          IN  answer.retryAfter = CeilDiv(rlReset[k] - now, 1000)]_vars

(***************************************************************************)
(* C26: the window of a key is fixed: it starts at the first admission     *)
(* check of the window and ends W later; a later admitted request does not *)
(* move the expiry of the running window.                                  *)
(***************************************************************************)
C26_FixedWindow ==
    [][\A k \in Tenants :
          (redisGet(k) > 0 /\ rdCtr'[k] = redisGet(k) + 1)
          => rdExp'[k] = rdExp[k]]_vars

(***************************************************************************)
(* C27: the idempotency record of a (tenant, key) is written at most once  *)
(* per TTL period: while a record is live no request, later or concurrent, *)
(* changes its stored status and body.                                     *)
(***************************************************************************)
C27_RecordWrittenOnce ==
    [][\A k \in IdemKeys : idemGet(k) # <<>> => idem'[k] = idem[k]]_vars

(***************************************************************************)
(* C28: a mutating request goes through rate limit, plan quota,            *)
(* idempotency lookup and business logic in this order; a request rejected *)
(* by the rate limit or the quota reads and writes no idempotency record   *)
(* and runs no business logic; a request answered as a duplicate runs no   *)
(* business logic: no provider call, no message row.                       *)
(***************************************************************************)
StageOrder ==
    <<"whatsappRateLimiter", "checkPlanLimits", "checkIdempotency", "sendText">>

rowsOfPipe(r) == {i \in 1..Len(msgs) : msgs[i].req = r}

C28_StagesInOrder ==
    \A r \in PipeReqs :
        /\ pipe[r].trace = SubSeq(StageOrder, 1, Len(pipe[r].trace))
        /\ pipe[r].code \in {"rate_limit_exceeded", "plan_limit_exceeded"} =>
              /\ pipe[r].reads = 0 /\ pipe[r].writes = 0
              /\ ~pipe[r].ran
              /\ rowsOfPipe(r) = {}
        /\ pipe[r].replay => (~pipe[r].ran /\ pipe[r].writes = 0
                                /\ rowsOfPipe(r) = {})
        /\ pipe[r].ran => Len(pipe[r].trace) = Len(StageOrder)

C28_Witness ==
    \E r, q, d \in PipeReqs :
        /\ pipe[r].code = "rate_limit_exceeded" /\ pipe[r].header \in Uuids
        /\ pipe[d].replay /\ pipe[d].status = 202
        /\ pipe[q].ran /\ pipe[q].writes = 1 /\ rowsOfPipe(q) # {}
        /\ pipe[r].tenant = pipe[q].tenant /\ pipe[d].tenant = pipe[q].tenant

(***************************************************************************)
(* C29: processing a status hands message.<status> to the partner          *)
(* dispatcher only when the status was applied as a transition of an       *)
(* existing message: an unknown provider_id, a repeated status and a       *)
(* backward or otherwise disallowed transition produce no partner event.   *)
(***************************************************************************)
C29_EventOnlyOnTransition ==
    [][(sreq' = sreq /\ msgLog' = msgLog /\ lastEvent' # lastEvent) =>
          \E i \in 1..Len(msgs) :
              /\ msgs[i].provider_id = lastEvent'[3]
              /\ msgs'[i].state = lastEvent'[2]
              /\ <<msgs[i].state, msgs'[i].state>> \in AllowedTransitions]_vars

(***************************************************************************)
(* C30: under every interleaving of concurrent vehicle creates of a tenant *)
(* the number of vehicles stored for the tenant never exceeds              *)
(* limits.plates.                                                          *)
(***************************************************************************)
C30_NeverAbovePlates ==
    \A t \in Tenants : vehicleCount(t) <= limits(t).plates
====
